---- MODULE Spec2Model ----
(***************************************************************************)
(* A model of src/src/index.ts: the two CloudFront origin-request          *)
(* handlers of the image resizer.  The file holds two versions of the      *)
(* handler: the simple `handler` (lines 38-137) and the class              *)
(* ImageResizeEdge with its `handle` method (lines 167-386).               *)
(*                                                                         *)
(* A JavaScript string is a sequence of one-character strings, so that     *)
(* the regular expressions, decodeURIComponent, URLSearchParams and        *)
(* parseInt are computed character by character as the code computes       *)
(* them.  `undefined` is the empty sequence <<>>, a number n is <<n>>.     *)
(***************************************************************************)
EXTENDS Integers, Sequences, FiniteSets, TLC

(***************************************************************************)
(* Characters                                                              *)
(***************************************************************************)

DecDigits == <<"0", "1", "2", "3", "4", "5", "6", "7", "8", "9">>

UpperLetters ==
    <<"A", "B", "C", "D", "E", "F", "G", "H", "I", "J", "K", "L", "M",
      "N", "O", "P", "Q", "R", "S", "T", "U", "V", "W", "X", "Y", "Z">>

LowerLetters ==
    <<"a", "b", "c", "d", "e", "f", "g", "h", "i", "j", "k", "l", "m",
      "n", "o", "p", "q", "r", "s", "t", "u", "v", "w", "x", "y", "z">>

\* The character of code 96, which the lexer of TLA+ does not take in a string.
GraveAccent == "<grave>"

\* The ASCII characters 32..126, in code order.
AsciiPrintable ==
    <<" ", "!", "\"", "#", "$", "%", "&", "'", "(", ")", "*", "+", ",", "-", ".", "/">>
    \o DecDigits
    \o <<":", ";", "<", "=", ">", "?", "@">>
    \o UpperLetters
    \o <<"[", "\\", "]", "^", "_", GraveAccent>>
    \o LowerLetters
    \o <<"{", "|", "}", "~">>

\* A control character (codes 0..31 and 127) and a character outside ASCII:
\* the code compares characters only with "/", "." and the like, so one
\* stand-in for each class is exact for it.
ControlChar == "<control>"
NonAsciiChar == "<non-ascii>"
\* The control characters that are white space: tab, LF, VT, FF, CR.
WhiteControlChar == "<white-control>"

Range(s) == {s[i] : i \in 1..Len(s)}

IndexOf(s, c) == CHOOSE i \in 1..Len(s) : s[i] = c

IsDigit(c) == c \in Range(DecDigits)

DigitVal(c) == IndexOf(DecDigits, c) - 1

\* [a-zA-Z0-9]
IsAlnum(c) == c \in Range(DecDigits) \cup Range(UpperLetters) \cup Range(LowerLetters)

IsHex(c) == c \in Range(DecDigits) \cup Range(SubSeq(UpperLetters, 1, 6))
                     \cup Range(SubSeq(LowerLetters, 1, 6))

HexVal(c) ==
    IF c \in Range(DecDigits) THEN IndexOf(DecDigits, c) - 1
    ELSE IF c \in Range(UpperLetters) THEN IndexOf(UpperLetters, c) + 9
    ELSE IndexOf(LowerLetters, c) + 9

\* String.fromCharCode for one byte below 128.
Chr(b) ==
    IF b >= 32 /\ b <= 126 THEN AsciiPrintable[b - 31]
    ELSE IF b >= 9 /\ b <= 13 THEN WhiteControlChar
    ELSE ControlChar

LowerChar(c) ==
    IF c \in Range(UpperLetters) THEN LowerLetters[IndexOf(UpperLetters, c)] ELSE c

toLowerCase(s) == [i \in 1..Len(s) |-> LowerChar(s[i])]

\* JavaScript white space that parseInt skips (the ASCII part of it).
IsWhiteSpace(c) == c \in {" ", WhiteControlChar}

\* s.slice(n): the string from index n (0-based) on.
slice(s, n) == SubSeq(s, n + 1, Len(s))

startsWith(s, p) == Len(s) >= Len(p) /\ SubSeq(s, 1, Len(p)) = p

endsWith(s, p) == Len(s) >= Len(p) /\ SubSeq(s, Len(s) - Len(p) + 1, Len(s)) = p

includes(s, p) == \E i \in 1..(Len(s) - Len(p) + 1) : SubSeq(s, i, i + Len(p) - 1) = p

(***************************************************************************)
(* Optional values: undefined is <<>>, a value x is <<x>>                  *)
(***************************************************************************)

Undefined == <<>>

Some(x) == <<x>>

\* JavaScript truthiness of an optional number: defined, and not 0.
Truthy(n) == n # Undefined /\ n[1] # 0

(***************************************************************************)
(* toInt (lines 13-20 and 275-282)                                         *)
(***************************************************************************)

RECURSIVE SkipWhiteSpace(_, _)
\* The first index from i on that holds no white space (Len(s) + 1: none).
SkipWhiteSpace(s, i) ==
    IF i <= Len(s) /\ IsWhiteSpace(s[i]) THEN SkipWhiteSpace(s, i + 1) ELSE i

RECURSIVE DigitRun(_, _, _)
\* The value of the decimal digits of s from index i on, after acc.
DigitRun(s, i, acc) ==
    IF i <= Len(s) /\ IsDigit(s[i]) THEN DigitRun(s, i + 1, 10 * acc + DigitVal(s[i]))
    ELSE acc

\* parseInt(s, 10): white space, a sign, then the leading digits; NaN (here
\* Undefined) when no digit follows.
parseInt(s) ==
    LET i == SkipWhiteSpace(s, 1)
        signed == i <= Len(s) /\ s[i] \in {"+", "-"}
        j == IF signed THEN i + 1 ELSE i
        n == DigitRun(s, j, 0)
    IN  IF j <= Len(s) /\ IsDigit(s[j])
        THEN Some(IF signed /\ s[i] = "-" THEN -n ELSE n)
        ELSE Undefined

Min(a, b) == IF a < b THEN a ELSE b

Max(a, b) == IF a > b THEN a ELSE b

\* v is an optional string: Undefined, or Some(string).
toInt(v, min, max) ==
    IF v = Undefined \/ v[1] = <<>> THEN Undefined
    ELSE LET n == parseInt(v[1])
         IN  IF n = Undefined THEN Undefined
             ELSE Some(Min(Max(n[1], min), max))

\* The defaults of toInt, and the range the handlers pass for q.
DefaultMin == 1
DefaultMax == 8192
QualityMax == 100

(***************************************************************************)
(* URLSearchParams (lines 43 and 205)                                      *)
(***************************************************************************)

RECURSIVE Split(_, _)
\* s.split(sep) for a one-character separator.
Split(s, sep) ==
    IF \A i \in 1..Len(s) : s[i] # sep THEN <<s>>
    ELSE LET i == CHOOSE k \in 1..Len(s) :
                      s[k] = sep /\ \A m \in 1..(k - 1) : s[m] # sep
         IN  <<SubSeq(s, 1, i - 1)>> \o Split(SubSeq(s, i + 1, Len(s)), sep)

RECURSIVE PercentDecode(_)
\* The URL standard's percent-decode followed by its lossy UTF-8 decode: a
\* "%" that two hex digits follow is that byte, any other "%" stays.
PercentDecode(s) ==
    IF s = <<>> THEN <<>>
    ELSE IF s[1] = "%" /\ Len(s) >= 3 /\ IsHex(s[2]) /\ IsHex(s[3])
    THEN LET b == 16 * HexVal(s[2]) + HexVal(s[3])
         IN  <<IF b < 128 THEN Chr(b) ELSE NonAsciiChar>> \o PercentDecode(slice(s, 3))
    ELSE <<s[1]>> \o PercentDecode(slice(s, 1))

\* application/x-www-form-urlencoded decoding of a name or a value.
FormDecode(s) == PercentDecode([i \in 1..Len(s) |-> IF s[i] = "+" THEN " " ELSE s[i]])

\* One "name=value" piece: the first "=" separates the name from the value.
ParsePiece(piece) ==
    IF \A i \in 1..Len(piece) : piece[i] # "=" THEN <<FormDecode(piece), <<>> >>
    ELSE LET i == CHOOSE k \in 1..Len(piece) :
                      piece[k] = "=" /\ \A m \in 1..(k - 1) : piece[m] # "="
         IN  <<FormDecode(SubSeq(piece, 1, i - 1)),
               FormDecode(SubSeq(piece, i + 1, Len(piece)))>>

\* new URLSearchParams(qs): the list of <<name, value>> entries, in order.
URLSearchParams(qs) ==
    LET body == IF startsWith(qs, <<"?">>) THEN slice(qs, 1) ELSE qs
        pieces == SelectSeq(Split(body, "&"), LAMBDA piece : piece # <<>>)
    IN  [i \in 1..Len(pieces) |-> ParsePiece(pieces[i])]

\* query.get(name): the value of the first entry of that name, or null
\* (which `?? undefined` turns into undefined).
SearchParamsGet(entries, name) ==
    IF \A i \in 1..Len(entries) : entries[i][1] # name THEN Undefined
    ELSE LET i == CHOOSE k \in 1..Len(entries) :
                      entries[k][1] = name /\ \A m \in 1..(k - 1) : entries[m][1] # name
         IN  Some(entries[i][2])

\* Object.fromEntries(entries)[name]: fromEntries sets the properties in
\* order, so the last entry of a name is the one that stays.
FromEntriesGet(entries, name) ==
    IF \A i \in 1..Len(entries) : entries[i][1] # name THEN Undefined
    ELSE LET i == CHOOSE k \in 1..Len(entries) :
                      entries[k][1] = name
                      /\ \A m \in (k + 1)..Len(entries) : entries[m][1] # name
         IN  Some(entries[i][2])

(***************************************************************************)
(* The extension of a URI                                                  *)
(***************************************************************************)

PNG == <<"p", "n", "g">>
JPG == <<"j", "p", "g">>
JPEG == <<"j", "p", "e", "g">>
WEBP == <<"w", "e", "b", "p">>
GIF == <<"g", "i", "f">>

ALLOWED_FMTS == <<PNG, JPG, JPEG, WEBP, GIF>>

ALLOWED_EXTENSIONS == <<PNG, JPG, JPEG, WEBP, GIF>>

\* uri.match(/\.([a-zA-Z0-9]+)$/)?.[1] || '': the characters after the last
\* "." when there is at least one and all are letters or digits, else ''.
MatchExtension(uri) ==
    IF \A i \in 1..Len(uri) : uri[i] # "." THEN <<>>
    ELSE LET d == CHOOSE k \in 1..Len(uri) :
                      uri[k] = "." /\ \A m \in (k + 1)..Len(uri) : uri[m] # "."
             tail == SubSeq(uri, d + 1, Len(uri))
         IN  IF tail # <<>> /\ \A i \in 1..Len(tail) : IsAlnum(tail[i]) THEN tail ELSE <<>>

extensionFromUri(uri) ==
    LET raw == toLowerCase(MatchExtension(uri))
    IN  IF raw \in Range(ALLOWED_EXTENSIONS) THEN Some(raw) ELSE Undefined

(***************************************************************************)
(* decodeURIComponent and keyFromUri (lines 227-233)                       *)
(***************************************************************************)

\* An escape "%XX" at index i of s.
IsEscapeAt(s, i) == i + 2 <= Len(s) /\ s[i] = "%" /\ IsHex(s[i + 1]) /\ IsHex(s[i + 2])

ByteAt(s, i) == 16 * HexVal(s[i + 1]) + HexVal(s[i + 2])

\* The number of bytes of the UTF-8 sequence a lead byte >= 128 opens
\* (0: the byte opens none).
Utf8Length(b) ==
    IF b >= 192 /\ b <= 223 THEN 2
    ELSE IF b >= 224 /\ b <= 239 THEN 3
    ELSE IF b >= 240 /\ b <= 247 THEN 4
    ELSE 0

IsContinuationAt(s, i) == IsEscapeAt(s, i) /\ ByteAt(s, i) >= 128 /\ ByteAt(s, i) <= 191

RECURSIVE CodePoint(_, _, _, _)
\* The code point of n further continuation escapes from index i on, after acc.
CodePoint(s, i, n, acc) ==
    IF n = 0 THEN acc
    ELSE CodePoint(s, i + 3, n - 1, 64 * acc + (ByteAt(s, i) - 128))

\* Whether the escapes at index i are the UTF-8 encoding of one code point:
\* continuation bytes follow, and the encoding is the shortest one of a
\* code point that is no surrogate and at most 0x10FFFF.
IsUtf8At(s, i) ==
    LET b == ByteAt(s, i)
        n == Utf8Length(b)
        lead == IF n = 2 THEN b - 192 ELSE IF n = 3 THEN b - 224 ELSE b - 240
        cp == CodePoint(s, i + 3, n - 1, lead)
    IN  /\ n # 0
        /\ \A k \in 1..(n - 1) : IsContinuationAt(s, i + 3 * k)
        /\ \/ n = 2 /\ cp >= 128
           \/ n = 3 /\ cp >= 2048 /\ ~(cp >= 55296 /\ cp <= 57343)
           \/ n = 4 /\ cp >= 65536 /\ cp <= 1114111

RECURSIVE Decode(_, _)
\* [threw |-> TRUE] for a URIError, else [threw |-> FALSE, value |-> string].
Decode(s, i) ==
    IF i > Len(s) THEN [threw |-> FALSE, value |-> <<>>]
    ELSE IF s[i] # "%"
    THEN LET rest == Decode(s, i + 1)
         IN  IF rest.threw THEN rest
             ELSE [threw |-> FALSE, value |-> <<s[i]>> \o rest.value]
    ELSE IF ~IsEscapeAt(s, i) THEN [threw |-> TRUE]
    ELSE IF ByteAt(s, i) < 128
    THEN LET rest == Decode(s, i + 3)
         IN  IF rest.threw THEN rest
             ELSE [threw |-> FALSE, value |-> <<Chr(ByteAt(s, i))>> \o rest.value]
    ELSE IF ~IsUtf8At(s, i) THEN [threw |-> TRUE]
    ELSE LET rest == Decode(s, i + 3 * Utf8Length(ByteAt(s, i)))
         IN  IF rest.threw THEN rest
             ELSE [threw |-> FALSE, value |-> <<NonAsciiChar>> \o rest.value]

decodeURIComponent(s) == Decode(s, 1)

RECURSIVE CollapseSlashes(_)
\* key.replace(/\/{2,}/g, '/'): every run of slashes becomes one slash.
CollapseSlashes(s) ==
    IF Len(s) < 2 THEN s
    ELSE IF s[1] = "/" /\ s[2] = "/" THEN CollapseSlashes(slice(s, 1))
    ELSE <<s[1]>> \o CollapseSlashes(slice(s, 1))

\* [threw |-> TRUE] when decodeURIComponent throws, else value is the
\* result: Some(key), or Undefined for null.
keyFromUri(uri) ==
    LET decoded == decodeURIComponent(uri)
    IN  IF decoded.threw THEN [threw |-> TRUE]
        ELSE LET key == IF startsWith(decoded.value, <<"/">>)
                        THEN slice(decoded.value, 1) ELSE decoded.value
             IN  IF includes(key, <<".", ".">>) THEN [threw |-> FALSE, value |-> Undefined]
                 ELSE LET collapsed == CollapseSlashes(key)
                      IN  [threw |-> FALSE,
                           value |-> IF Len(collapsed) # 0 THEN Some(collapsed)
                                     ELSE Undefined]

\* const uri = req.uri || '/' (line 40)
SimpleUri(req) == IF req.uri = <<>> THEN <<"/">> ELSE req.uri

\* The Key of the simple handler: uri.startsWith('/') ? uri.slice(1) : uri
SimpleKey(uri) == IF startsWith(uri, <<"/">>) THEN slice(uri, 1) ELSE uri

(***************************************************************************)
(* The PNG compression level (lines 95-98 and 269-273)                     *)
(***************************************************************************)

\* Math.round(n / d) for n >= 0 and d > 0: halves round up.
RoundDiv(n, d) == (2 * n + d) \div (2 * d)

\* A mutant of pngCompressionLevel: Math.floor for Math.round.
MutantPngLevelFloor(quality) ==
    IF quality = Undefined THEN 6
    ELSE Max(0, Min(9, (100 - quality[1]) \div 11))

pngCompressionLevel(quality) ==
    IF quality = Undefined THEN 6
    ELSE Max(0, Min(9, RoundDiv(100 - quality[1], 11)))

\* The simple handler's own copy of the expression.
SimpleCompressionLevel(quality) ==
    IF quality # Undefined THEN Max(0, Min(9, RoundDiv(100 - quality[1], 11)))
    ELSE 6

(***************************************************************************)
(* Responses (lines 22-36, 57-64, 116-135 and 284-385)                     *)
(***************************************************************************)

BUCKET == "cf-image-resize-test-bucket"

MAX_BYTES == 1000000

\* The ceiling on ContentLength in handle (line 187).
MAX_ORIGINAL_BYTES == 50000000

TextPlain == "text/plain; charset=utf-8"

\* `public, max-age=${maxAge}, immutable` with maxAge = 30 * 24 * 60 * 60.
CacheControl == "public, max-age=2592000, immutable"

contentTypeByExt(ext) ==
    IF ext \in {JPG, JPEG} THEN "image/jpeg"
    ELSE IF ext = PNG THEN "image/png"
    ELSE IF ext = WEBP THEN "image/webp"
    ELSE IF ext = GIF THEN "image/gif"
    ELSE "application/octet-stream"

\* The body of a success response: the base64 text of a buffer of n bytes.
Base64(n) == [base64Of |-> n]

headers(contentType) ==
    ("cache-control" :> <<[value |-> CacheControl]>>)
    @@ ("vary" :> <<[value |-> "Accept,Accept-Encoding"]>>)
    @@ ("content-type" :> <<[value |-> contentType]>>)

ok(byteLength, contentType) ==
    [status |-> "200", statusDescription |-> "OK", bodyEncoding |-> "base64",
     body |-> Base64(byteLength), headers |-> headers(contentType)]

badRequest(msg) ==
    [status |-> "400", statusDescription |-> "Bad Request", body |-> msg,
     headers |-> headers(TextPlain)]

notFound(msg) ==
    [status |-> "404", statusDescription |-> "Not Found", body |-> msg,
     headers |-> headers(TextPlain)]

payloadTooLarge(msg) ==
    [status |-> "413", statusDescription |-> "Payload Too Large", body |-> msg,
     headers |-> headers(TextPlain)]

serverError(msg) ==
    [status |-> "500", statusDescription |-> "Server Error", body |-> msg,
     headers |-> headers(TextPlain)]

\* The request object itself, returned as the response.
passThrough(req) == req

\* A mutant of CatchResponse: any status code of the storage client is taken
\* for a missing object.
MutantCatchAnyStatus(e) ==
    IF e.httpStatusCode # Undefined THEN notFound("Original image not found")
    ELSE serverError("Image processing failed")

\* The catch block of handle (lines 197-201); e is the thrown error.
CatchResponse(e) ==
    IF e.httpStatusCode = Some(404) THEN notFound("Original image not found")
    ELSE serverError("Image processing failed")

\* The simple handler's responses: its errors carry content-type only.
SimpleBadExtension ==
    [status |-> "400", statusDescription |-> "Bad Request",
     headers |-> ("content-type" :> <<[value |-> TextPlain]>>),
     body |-> "Unsupported or missing image extension."]

SimpleOk(byteLength, ext) ==
    [status |-> "200", statusDescription |-> "OK", bodyEncoding |-> "base64",
     body |-> Base64(byteLength),
     headers |-> ("content-type" :> <<[value |-> contentTypeByExt(ext)]>>)
                 @@ ("cache-control" :> <<[value |-> CacheControl]>>)
                 @@ ("vary" :> <<[value |-> "Accept,Accept-Encoding"]>>)]

\* The catch block of the simple handler (lines 127-136).
SimpleCatchResponse(e) ==
    [status |-> IF e.httpStatusCode = Some(404) THEN "404" ELSE "500",
     statusDescription |->
         IF e.httpStatusCode = Some(404) THEN "Not Found" ELSE "Server Error",
     headers |-> ("content-type" :> <<[value |-> TextPlain]>>),
     body |-> IF e.httpStatusCode = Some(404) THEN "Original image not found"
              ELSE "Image processing failed"]

(***************************************************************************)
(* Parsing and gating (lines 43-55 and 204-218)                            *)
(***************************************************************************)

\* A mutant of parseParams: the parameters are read as the simple handler
\* reads them, from Object.fromEntries.
MutantParseParamsFromEntries(req) ==
    LET query == URLSearchParams(req.querystring)
    IN  [width |-> toInt(FromEntriesGet(query, <<"w">>), DefaultMin, DefaultMax),
         height |-> toInt(FromEntriesGet(query, <<"h">>), DefaultMin, DefaultMax),
         quality |-> toInt(FromEntriesGet(query, <<"q">>), DefaultMin, QualityMax),
         extension |-> extensionFromUri(req.uri)]

parseParams(req) ==
    LET query == URLSearchParams(req.querystring)
    IN  [width |-> toInt(SearchParamsGet(query, <<"w">>), DefaultMin, DefaultMax),
         height |-> toInt(SearchParamsGet(query, <<"h">>), DefaultMin, DefaultMax),
         quality |-> toInt(SearchParamsGet(query, <<"q">>), DefaultMin, QualityMax),
         extension |-> extensionFromUri(req.uri)]

\* A mutant of shouldProcess: the extension alone decides.
MutantShouldProcessExtensionOnly(p) ==
    ~(p.extension = Undefined \/ p.extension[1] \notin Range(ALLOWED_EXTENSIONS))

\* A mutant of shouldProcess: the parameters alone decide.
MutantShouldProcessParamsOnly(p) ==
    Truthy(p.width) \/ Truthy(p.height) \/ Truthy(p.quality)

shouldProcess(p) ==
    IF p.extension = Undefined \/ p.extension[1] \notin Range(ALLOWED_EXTENSIONS)
    THEN FALSE
    ELSE Truthy(p.width) \/ Truthy(p.height) \/ Truthy(p.quality)

\* A mutant of SimpleParams: the whitelist is not consulted.
MutantSimpleParamsNoWhitelist(req) ==
    LET urlQuery == URLSearchParams(req.querystring)
        fileExtensionRaw == toLowerCase(MatchExtension(SimpleUri(req)))
    IN  [width |-> toInt(FromEntriesGet(urlQuery, <<"w">>), DefaultMin, DefaultMax),
         height |-> toInt(FromEntriesGet(urlQuery, <<"h">>), DefaultMin, DefaultMax),
         quality |-> toInt(FromEntriesGet(urlQuery, <<"q">>), DefaultMin, QualityMax),
         extension |-> IF fileExtensionRaw # <<>>
                       THEN Some(fileExtensionRaw) ELSE Undefined]

\* Lines 43-55 of the simple handler: the same record, read from
\* Object.fromEntries, with fileExtension as extension.
SimpleParams(req) ==
    LET urlQuery == URLSearchParams(req.querystring)
        fileExtensionRaw == toLowerCase(MatchExtension(SimpleUri(req)))
    IN  [width |-> toInt(FromEntriesGet(urlQuery, <<"w">>), DefaultMin, DefaultMax),
         height |-> toInt(FromEntriesGet(urlQuery, <<"h">>), DefaultMin, DefaultMax),
         quality |-> toInt(FromEntriesGet(urlQuery, <<"q">>), DefaultMin, QualityMax),
         extension |-> IF fileExtensionRaw \in Range(ALLOWED_FMTS)
                       THEN Some(fileExtensionRaw) ELSE Undefined]

(***************************************************************************)
(* The sharp pipeline (lines 76-111 and 245-264)                           *)
(***************************************************************************)

ResizeOptions(p) ==
    IF Truthy(p.width) \/ Truthy(p.height)
    THEN Some([width |-> p.width, height |-> p.height, fit |-> "inside",
               withoutEnlargement |-> TRUE])
    ELSE Undefined

\* The encoder call of transform: the format and its options.
EncodeCall(p) ==
    LET ext == p.extension[1]
    IN  IF ext \in {JPG, JPEG}
        THEN [format |-> "jpeg",
              options |-> IF Truthy(p.quality) THEN Some([quality |-> p.quality[1]])
                          ELSE Undefined]
        ELSE IF ext = PNG
        THEN [format |-> "png",
              options |-> Some([compressionLevel |-> pngCompressionLevel(p.quality)])]
        ELSE IF ext = WEBP
        THEN [format |-> "webp",
              options |-> IF Truthy(p.quality) THEN Some([quality |-> p.quality[1]])
                          ELSE Undefined]
        ELSE [format |-> "gif", options |-> Undefined]

\* The encoder call of the simple handler.
SimpleEncodeCall(p) ==
    LET ext == p.extension[1]
    IN  IF ext \in {JPG, JPEG}
        THEN [format |-> "jpeg",
              options |-> IF Truthy(p.quality) THEN Some([quality |-> p.quality[1]])
                          ELSE Undefined]
        ELSE IF ext = PNG
        THEN [format |-> "png",
              options |-> Some([compressionLevel |-> SimpleCompressionLevel(p.quality)])]
        ELSE IF ext = WEBP
        THEN [format |-> "webp",
              options |-> IF Truthy(p.quality) THEN Some([quality |-> p.quality[1]])
                          ELSE Undefined]
        ELSE [format |-> "gif", options |-> Undefined]

\* meta.format !== p.extension (line 243)
FormatMismatch(format, p) == format # p.extension[1]

\* A mutant of ExceedsLimit: the limit is off by one.
MutantExceedsLimitOffByOne(byteLength) == byteLength > MAX_BYTES + 1

\* output.byteLength > MAX_BYTES (line 194)
ExceedsLimit(byteLength) == byteLength > MAX_BYTES

(***************************************************************************)
(* The requests and the collaborators' answers the model draws from        *)
(***************************************************************************)

\* The pieces a URI path is put together from, at most MaxParts of them.
MaxParts == 3

\* The "name=value" pairs of a query string, at most MaxParams of them.
MaxParams == 2

\* The length of a parameter value drawn character by character.
MaxValueLen == 4

\* The values of q drawn as decimal numbers: 0..MaxQualityInput.
MaxQualityInput == 110

RECURSIVE Flatten(_)
Flatten(ss) == IF ss = <<>> THEN <<>> ELSE Head(ss) \o Flatten(Tail(ss))

RECURSIVE Join(_, _)
Join(ss, sep) ==
    IF ss = <<>> THEN <<>>
    ELSE IF Len(ss) = 1 THEN ss[1]
    ELSE ss[1] \o sep \o Join(Tail(ss), sep)

SeqsUpTo(S, n) == UNION {[1..k -> S] : k \in 0..n}

RECURSIVE Decimal(_)
\* The decimal digits of n >= 0.
Decimal(n) ==
    IF n < 10 THEN <<DecDigits[n + 1]>>
    ELSE Decimal(n \div 10) \o <<DecDigits[(n % 10) + 1]>>

UriParts ==
    {<<"/">>, <<".">>, <<"%", "2", "F">>, <<"%", "2", "e">>, <<"%">>}

\* CloudFront's request.uri begins with "/".
PathUris(suffixes) ==
    {<<"/">> \o Flatten(parts) \o sfx : parts \in SeqsUpTo(UriParts, MaxParts),
                                         sfx \in suffixes}

FileUris ==
    {<<"/", "a">> \o sfx :
        sfx \in {<<>>, <<".">>, <<".", "p", "n", "g">>, <<".", "j", "p", "g">>,
                 <<".", "j", "p", "e", "g">>, <<".", "w", "e", "b", "p">>,
                 <<".", "g", "i", "f">>, <<".", "b", "m", "p">>,
                 <<".", "P", "n", "G">>, <<".", "p", "n", "g", "/">>,
                 <<".", "p", "-", "g">>}}

W100 == <<"w", "=", "1", "0", "0">>

ParamNames == {<<"w">>, <<"h">>, <<"q">>}

SampleValues == {<<>>, <<"x">>, <<"7">>, <<"5", "0">>}

ValueChars == {"-", "0", "9", "x", " "}

QueryOf(pairs) == Join([i \in 1..Len(pairs) |-> pairs[i][1] \o <<"=">> \o pairs[i][2]], <<"&">>)

Event(uri, qs) == [uri |-> uri, querystring |-> qs]

\* Many paths, with and without a transform parameter.
PathEvents ==
    {Event(uri, qs) :
        uri \in PathUris({<<>>, <<"a", ".", "p", "n", "g">>, <<"a", ".", "b", "m", "p">>}),
        qs \in {<<>>, W100}}

\* Every extension, with and without a transform parameter.
FileEvents == {Event(uri, qs) : uri \in FileUris, qs \in {<<>>, W100, <<"h", "=">>}}

\* Query strings of several pairs, repeated names among them.
QueryEvents ==
    {Event(uri, QueryOf(pairs)) :
        uri \in {<<"/", "a", ".", "p", "n", "g">>, <<"/", "a", ".", "b", "m", "p">>},
        pairs \in SeqsUpTo(ParamNames \X SampleValues, MaxParams)}

\* One parameter, its value drawn character by character.
ValueEvents ==
    {Event(<<"/", "a", ".", "p", "n", "g">>, <<"w", "=">> \o v) :
        v \in SeqsUpTo(ValueChars, MaxValueLen)}

\* Every quality.
QualityEvents ==
    {Event(uri, <<"q", "=">> \o Decimal(n)) :
        uri \in {<<"/", "a", ".", "p", "n", "g">>, <<"/", "a", ".", "j", "p", "g">>},
        n \in 0..MaxQualityInput}

Events == PathEvents \cup FileEvents \cup QueryEvents \cup ValueEvents \cup QualityEvents

\* An error a collaborator throws: what the catch blocks read of it.  The
\* storage client's errors carry $metadata.httpStatusCode, a network error
\* and sharp's errors do not.
Error(from, httpStatusCode) == [from |-> from, httpStatusCode |-> httpStatusCode]

StorageErrors ==
    {Error("getObject", c) : c \in {Undefined, Some(403), Some(404), Some(500)}}

\* What getObject resolves to: whether Body is there, and ContentLength.
StorageObjects ==
    [Body : BOOLEAN,
     ContentLength : {Undefined, Some(1), Some(MAX_ORIGINAL_BYTES),
                      Some(MAX_ORIGINAL_BYTES + 1)}]

SVG == <<"s", "v", "g">>

\* The values of metadata().format the model draws.
SharpFormats == {<<"j", "p", "e", "g">>, PNG, WEBP, GIF, SVG}

\* The byte lengths of toBuffer()'s result the model draws.
OutputSizes == {0, 1, MAX_BYTES, MAX_BYTES + 1, 2 * MAX_BYTES}

(***************************************************************************)
(* The handlers as state machines                                          *)
(***************************************************************************)

VARIABLES
    variant,    \* which handler the function exports: "simple" or "enhanced"
    pc,         \* where the invocation stands
    request,    \* event.Records[0].cf.request
    params,     \* the parsed parameters
    s3calls,    \* the GetObjectCommand inputs sent while handling the request
    s3object,   \* what getObject resolved to
    meta,       \* what img.metadata() resolved to
    pipeline,   \* the sharp calls made: the resize and the encoder
    output,     \* the byte length toBuffer() resolved to
    thrown,     \* the error thrown and caught, or thrown out of the handler
    response    \* what the handler returned

vars == <<variant, pc, request, params, s3calls, s3object, meta, pipeline, output,
          thrown, response>>

NoRequest == [uri |-> <<>>, querystring |-> <<>>]

NoParams ==
    [width |-> Undefined, height |-> Undefined, quality |-> Undefined,
     extension |-> Undefined]

Init ==
    /\ variant \in {"simple", "enhanced"}
    /\ pc = "idle"
    /\ request = NoRequest
    /\ params = NoParams
    /\ s3calls = <<>>
    /\ s3object = Undefined
    /\ meta = Undefined
    /\ pipeline = Undefined
    /\ output = Undefined
    /\ thrown = Undefined
    /\ response = Undefined

\* CloudFront invokes the exported handler with an event.
Invoke ==
    /\ pc = "idle"
    /\ \E event \in Events : request' = event
    /\ pc' = "start"
    /\ UNCHANGED <<variant, params, s3calls, s3object, meta, pipeline, output, thrown,
                   response>>

\* The runtime takes the handler's result (its response, or its rejection)
\* and waits for the next event; nothing of the request is kept.
Settle ==
    /\ pc \in {"done", "rejected"}
    /\ pc' = "idle"
    /\ request' = NoRequest
    /\ params' = NoParams
    /\ s3calls' = <<>>
    /\ s3object' = Undefined
    /\ meta' = Undefined
    /\ pipeline' = Undefined
    /\ output' = Undefined
    /\ thrown' = Undefined
    /\ response' = Undefined
    /\ UNCHANGED variant

\* return resp
Return(resp) == pc' = "done" /\ response' = Some(resp)

\* An error caught by the catch block of handle.
Catch(e) == thrown' = Some(e) /\ Return(CatchResponse(e))

\* handle, up to its first await (lines 174-184).
Handle ==
    /\ pc = "start" /\ variant = "enhanced"
    /\ LET p == parseParams(request)
           key == keyFromUri(request.uri)
       IN  /\ params' = p
           /\ IF ~shouldProcess(p)
              THEN Return(passThrough(request)) /\ UNCHANGED <<s3calls, thrown>>
              ELSE IF key.threw
              THEN /\ pc' = "rejected"
                   /\ thrown' = Some(Error("decodeURIComponent", Undefined))
                   /\ UNCHANGED <<s3calls, response>>
              ELSE IF key.value = Undefined \/ key.value[1] = <<>>
              THEN Return(badRequest("Invalid path.")) /\ UNCHANGED <<s3calls, thrown>>
              ELSE /\ s3calls' = Append(s3calls, [Bucket |-> BUCKET, Key |-> key.value[1]])
                   /\ pc' = "getObject"
                   /\ UNCHANGED <<thrown, response>>
    /\ UNCHANGED <<variant, request, s3object, meta, pipeline, output>>

\* await this.getObject(key) settles (lines 184-191).
GetObjectSettled ==
    /\ pc = "getObject" /\ variant = "enhanced"
    /\ \/ \E e \in StorageErrors : Catch(e) /\ UNCHANGED s3object
       \/ \E obj \in StorageObjects :
             /\ s3object' = Some(obj)
             /\ IF ~obj.Body THEN Return(notFound("Image not found"))
                ELSE IF obj.ContentLength # Undefined
                        /\ obj.ContentLength[1] > MAX_ORIGINAL_BYTES
                THEN Return(payloadTooLarge("Original image too large."))
                ELSE pc' = "bufferFromBody" /\ UNCHANGED response
             /\ UNCHANGED thrown
    /\ UNCHANGED <<variant, request, params, s3calls, meta, pipeline, output>>

\* await this.bufferFromBody(body) settles; transform runs to its first
\* await (lines 191-192 and 240-242).
BufferFromBodySettled ==
    /\ pc = "bufferFromBody" /\ variant = "enhanced"
    /\ \/ Catch(Error("bufferFromBody", Undefined))
       \/ pc' = "metadata" /\ UNCHANGED <<thrown, response>>
    /\ UNCHANGED <<variant, request, params, s3calls, s3object, meta, pipeline, output>>

\* await img.metadata() settles; transform builds the pipeline and calls
\* toBuffer (lines 242-266).
MetadataSettled ==
    /\ pc = "metadata" /\ variant = "enhanced"
    /\ \/ Catch(Error("metadata", Undefined)) /\ UNCHANGED <<meta, pipeline>>
       \/ \E format \in SharpFormats :
             /\ meta' = Some([format |-> format])
             /\ IF FormatMismatch(format, params)
                THEN Catch(Error("Mismatched image format", Undefined))
                     /\ UNCHANGED pipeline
                ELSE /\ pipeline' = Some([resize |-> ResizeOptions(params),
                                          encode |-> EncodeCall(params)])
                     /\ pc' = "toBuffer"
                     /\ UNCHANGED <<thrown, response>>
    /\ UNCHANGED <<variant, request, params, s3calls, s3object, output>>

\* stream.toBuffer() settles (lines 192-196).
ToBufferSettled ==
    /\ pc = "toBuffer" /\ variant = "enhanced"
    /\ \/ Catch(Error("toBuffer", Undefined)) /\ UNCHANGED output
       \/ \E n \in OutputSizes :
             /\ output' = Some(n)
             /\ IF ExceedsLimit(n) THEN Return(payloadTooLarge("Image exceeds 1MB limit."))
                ELSE Return(ok(n, contentTypeByExt(params.extension[1])))
             /\ UNCHANGED thrown
    /\ UNCHANGED <<variant, request, params, s3calls, s3object, meta, pipeline>>

\* An error caught by the catch block of the simple handler.
SimpleCatch(e) == thrown' = Some(e) /\ Return(SimpleCatchResponse(e))

\* The simple handler, up to its first await (lines 38-73).
SimpleHandler ==
    /\ pc = "start" /\ variant = "simple"
    /\ LET p == SimpleParams(request)
       IN  /\ params' = p
           /\ IF p.extension = Undefined
              THEN Return(SimpleBadExtension) /\ UNCHANGED s3calls
              ELSE /\ s3calls' = Append(s3calls, [Bucket |-> BUCKET,
                                                 Key |-> SimpleKey(SimpleUri(request))])
                   /\ pc' = "getObject"
                   /\ UNCHANGED response
    /\ UNCHANGED <<variant, request, s3object, meta, pipeline, output, thrown>>

\* await s3.send(...) settles; streamToBuffer(obj.Body) throws at once on a
\* missing Body (lines 68-74).
SimpleGetObjectSettled ==
    /\ pc = "getObject" /\ variant = "simple"
    /\ \/ \E e \in StorageErrors : SimpleCatch(e) /\ UNCHANGED s3object
       \/ \E obj \in StorageObjects :
             /\ s3object' = Some(obj)
             /\ IF ~obj.Body THEN SimpleCatch(Error("streamToBuffer", Undefined))
                ELSE pc' = "streamToBuffer" /\ UNCHANGED <<thrown, response>>
    /\ UNCHANGED <<variant, request, params, s3calls, meta, pipeline, output>>

\* await streamToBuffer(...) settles; the pipeline is built and toBuffer
\* called (lines 74-113).
SimpleStreamSettled ==
    /\ pc = "streamToBuffer" /\ variant = "simple"
    /\ \/ SimpleCatch(Error("streamToBuffer", Undefined)) /\ UNCHANGED pipeline
       \/ /\ pipeline' = Some([resize |-> ResizeOptions(params),
                                encode |-> SimpleEncodeCall(params)])
          /\ pc' = "toBuffer"
          /\ UNCHANGED <<thrown, response>>
    /\ UNCHANGED <<variant, request, params, s3calls, s3object, meta, output>>

\* await image.toBuffer() settles (lines 113-126).
SimpleToBufferSettled ==
    /\ pc = "toBuffer" /\ variant = "simple"
    /\ \/ SimpleCatch(Error("toBuffer", Undefined)) /\ UNCHANGED output
       \/ \E n \in OutputSizes :
             /\ output' = Some(n)
             /\ Return(SimpleOk(n, params.extension[1]))
             /\ UNCHANGED thrown
    /\ UNCHANGED <<variant, request, params, s3calls, s3object, meta, pipeline>>

Next ==
    \/ Invoke
    \/ Settle
    \/ Handle
    \/ GetObjectSettled
    \/ BufferFromBodySettled
    \/ MetadataSettled
    \/ ToBufferSettled
    \/ SimpleHandler
    \/ SimpleGetObjectSettled
    \/ SimpleStreamSettled
    \/ SimpleToBufferSettled

Spec == Init /\ [][Next]_vars

(***************************************************************************)
(* What the properties below speak of                                      *)
(***************************************************************************)

\* The invocation has run its first step.
Started == pc \notin {"idle", "start"}

Done == pc = "done"

\* The URI ends with "." and a whitelisted extension, in any letter case.
AllowedSuffix(uri) ==
    \E e \in {PNG, JPG, JPEG, WEBP, GIF} : endsWith(toLowerCase(uri), <<".">> \o e)

\* The values the query string gives for a name, in order.
ValuesOf(name) ==
    LET entries == URLSearchParams(request.querystring)
    IN  SelectSeq([i \in 1..Len(entries) |->
                      IF entries[i][1] = name THEN Some(entries[i][2]) ELSE Undefined],
                  LAMBDA v : v # Undefined)

\* A value that is a number for toInt: not empty, and digits lead it.
IsNumeric(v) == v # <<>> /\ parseInt(v) # Undefined

\* Parameter `name` is missing, or every value given for it is empty or no
\* number.
ParameterAbsent(name) ==
    \A i \in 1..Len(ValuesOf(name)) : ~IsNumeric(ValuesOf(name)[i][1])

\* Parameter `name` is given, and every value given for it is a number.
ParameterPresent(name) ==
    /\ ValuesOf(name) # <<>>
    /\ \A i \in 1..Len(ValuesOf(name)) : IsNumeric(ValuesOf(name)[i][1])

NoTransformParameter == \A name \in ParamNames : ParameterAbsent(name)

SomeTransformParameter ==
    /\ \E name \in ParamNames : ParameterPresent(name)
    /\ \A name \in ParamNames : ParameterPresent(name) \/ ParameterAbsent(name)

IsPassthrough == response = Some(request)

\* The response is an envelope of that status and description, in plain text.
IsPlainText(status, description) ==
    /\ response # Undefined
    /\ "status" \in DOMAIN response[1]
    /\ response[1].status = status
    /\ response[1].statusDescription = description
    /\ response[1].headers["content-type"] = <<[value |-> "text/plain; charset=utf-8"]>>
    /\ "bodyEncoding" \notin DOMAIN response[1]

IsErrorResponse ==
    \/ IsPlainText("400", "Bad Request")
    \/ IsPlainText("404", "Not Found")
    \/ IsPlainText("413", "Payload Too Large")
    \/ IsPlainText("500", "Server Error")

IsSuccess ==
    /\ response # Undefined
    /\ "status" \in DOMAIN response[1]
    /\ response[1].status = "200"

(***************************************************************************)
(* C1                                                                      *)
(***************************************************************************)

\* C1: whenever the handler has finished, it has returned exactly one of a
\* passthrough, an error response or a success response; it never rejects.
C1_AlwaysResponds ==
    pc \in {"done", "rejected"} =>
        /\ pc = "done"
        /\ IsPassthrough \/ IsErrorResponse \/ IsSuccess

(***************************************************************************)
(* C2                                                                      *)
(***************************************************************************)

\* C2 as stated: a request that gives none of w, h, q is answered by the
\* request itself, with no fetch and no transformation, whatever the
\* extension.
C2_PassthroughWithoutParameters ==
    (Started /\ NoTransformParameter) =>
        /\ Done
        /\ IsPassthrough
        /\ s3calls = <<>>
        /\ pipeline = Undefined

\* C2 amended: that holds of ImageResizeEdge.handle; the simple handler has
\* no passthrough: it answers 400 without a fetch when the extension is
\* not whitelisted, and fetches the object otherwise.
C2_PassthroughWithoutParametersEnhanced ==
    (Started /\ NoTransformParameter) =>
        /\ variant = "enhanced" =>
              /\ Done
              /\ IsPassthrough
              /\ s3calls = <<>>
              /\ pipeline = Undefined
        /\ variant = "simple" =>
              IF AllowedSuffix(request.uri)
              THEN Len(s3calls) = 1 /\ ~IsPassthrough
              ELSE Done /\ IsPlainText("400", "Bad Request") /\ s3calls = <<>>

C2_Witness ==
    /\ variant = "enhanced"
    /\ Done
    /\ NoTransformParameter
    /\ request.querystring # <<>>
    /\ AllowedSuffix(request.uri)
    /\ IsPassthrough

(***************************************************************************)
(* C3                                                                      *)
(***************************************************************************)

\* Not empty, no leading "/", no ".." segment, no doubled "/".
CleanKey(key) ==
    /\ key # <<>>
    /\ key[1] # "/"
    /\ <<".", ".">> \notin Range(Split(key, "/"))
    /\ ~includes(key, <<"/", "/">>)

\* C3: every key passed to getObject is clean.
C3_KeysAreClean == \A i \in 1..Len(s3calls) : CleanKey(s3calls[i].Key)

(***************************************************************************)
(* C4                                                                      *)
(***************************************************************************)

SizeLimitKept ==
    /\ (output # Undefined /\ output[1] > 1000000) =>
           IsPlainText("413", "Payload Too Large")
    /\ IsSuccess => response[1].body.base64Of <= 1000000

\* C4 as stated: an output of more than 1,000,000 bytes is answered with
\* 413, and no 200 response carries more than 1,000,000 bytes.
C4_OutputLimit == SizeLimitKept

\* C4 amended: that holds of ImageResizeEdge.handle; the simple handler has
\* no limit and answers 200 with the output whatever its size.
C4_OutputLimitEnhanced ==
    /\ variant = "enhanced" => SizeLimitKept
    /\ (variant = "simple" /\ output # Undefined) =>
           IsSuccess /\ response[1].body = Base64(output[1])

C4_Witness ==
    /\ variant = "enhanced"
    /\ output # Undefined
    /\ output[1] > 1000000
    /\ IsPlainText("413", "Payload Too Large")

(***************************************************************************)
(* C5                                                                      *)
(***************************************************************************)

\* C5 as stated: a request with a transform parameter whose extension is
\* not whitelisted is answered with 400 Bad Request in plain text.
C5_BadExtensionRejected ==
    (Started /\ ~AllowedSuffix(request.uri) /\ SomeTransformParameter) =>
        Done /\ IsPlainText("400", "Bad Request")

\* C5 amended: the simple handler answers so; ImageResizeEdge.handle
\* answers with the request itself (a passthrough).
C5_BadExtensionBySimpleRejected ==
    (Started /\ ~AllowedSuffix(request.uri) /\ SomeTransformParameter) =>
        /\ Done
        /\ variant = "simple" =>
              /\ IsPlainText("400", "Bad Request")
              /\ response[1].body = "Unsupported or missing image extension."
        /\ variant = "enhanced" => IsPassthrough

C5_Witness ==
    /\ variant = "simple"
    /\ Done
    /\ ~AllowedSuffix(request.uri)
    /\ SomeTransformParameter
    /\ IsPlainText("400", "Bad Request")

(***************************************************************************)
(* C6                                                                      *)
(***************************************************************************)

\* C6: while a request whose extension is not whitelisted is handled,
\* getObject is never called, and the first step ends the handling with a
\* rejection or a passthrough.
C6_NoFetchOutsideWhitelist ==
    ~AllowedSuffix(request.uri) =>
        /\ s3calls = <<>>
        /\ Started => Done /\ (IsPlainText("400", "Bad Request") \/ IsPassthrough)

C6_Witness ==
    /\ variant = "enhanced"
    /\ Done
    /\ ~AllowedSuffix(request.uri)
    /\ SomeTransformParameter
    /\ s3calls = <<>>

(***************************************************************************)
(* C7                                                                      *)
(***************************************************************************)

\* The storage client reported status 404.
StorageNotFound ==
    /\ thrown # Undefined
    /\ thrown[1].from = "getObject"
    /\ thrown[1].httpStatusCode = Some(404)

\* getObject resolved to an object without a Body, which handle answers
\* with 404 itself.
BodyMissing ==
    /\ variant = "enhanced"
    /\ thrown = Undefined
    /\ s3object # Undefined
    /\ ~s3object[1].Body

\* C7: a caught failure of getObject with status 404 is answered with 404
\* Not Found, every other caught failure (of the storage client, of
\* reading the body, of decoding or encoding) with 500 Server Error and
\* the generic message, both in plain text; and a 404 answers no failure
\* but the storage client's 404.
C7_ErrorMapping ==
    /\ (Done /\ thrown # Undefined) =>
           /\ StorageNotFound =>
                 /\ IsPlainText("404", "Not Found")
                 /\ response[1].body = "Original image not found"
           /\ ~StorageNotFound =>
                 /\ IsPlainText("500", "Server Error")
                 /\ response[1].body = "Image processing failed"
    /\ (Done /\ IsPlainText("404", "Not Found")) => StorageNotFound \/ BodyMissing

C7_Witness ==
    /\ variant = "enhanced"
    /\ Done
    /\ thrown # Undefined
    /\ thrown[1].from = "getObject"
    /\ thrown[1].httpStatusCode = Some(403)
    /\ IsPlainText("500", "Server Error")

(***************************************************************************)
(* C8                                                                      *)
(***************************************************************************)

\* jpg and jpeg name one format.
SameFormat(a, b) == a = b \/ {a, b} \subseteq {JPG, JPEG}

MismatchThrown ==
    /\ thrown # Undefined
    /\ thrown[1].from = "Mismatched image format"

\* C8: once metadata() has answered, the request has failed as a mismatch
\* exactly when the detected format and the extension differ, jpg and jpeg
\* being the same format.
C8_MismatchIffFormatsDiffer ==
    meta # Undefined =>
        (MismatchThrown <=> ~SameFormat(meta[1].format, params.extension[1]))

(***************************************************************************)
(* C9                                                                      *)
(***************************************************************************)

Distance(a, b) == IF a >= b THEN a - b ELSE b - a

\* The level in 0..9 whose elevenfold is nearest to 100 - q: the rounded,
\* clamped quotient.
NearestLevel(q) ==
    CHOOSE level \in 0..9 :
        \A other \in 0..9 : Distance(11 * level, 100 - q) <= Distance(11 * other, 100 - q)

SpecifiedLevel(quality) ==
    IF quality = Undefined THEN 6 ELSE NearestLevel(quality[1])

\* The level as a function of the quality: the specified one, in 0..9, never
\* rising with the quality, 0 at 100, 9 at 1, and 6 without a quality.
PngLevelFunction ==
    /\ \A q \in 1..100 :
           /\ pngCompressionLevel(Some(q)) = NearestLevel(q)
           /\ pngCompressionLevel(Some(q)) \in 0..9
           /\ q < 100 => pngCompressionLevel(Some(q)) >= pngCompressionLevel(Some(q + 1))
    /\ pngCompressionLevel(Some(100)) = 0
    /\ pngCompressionLevel(Some(1)) = 9
    /\ pngCompressionLevel(Undefined) = 6

\* C9: the compression level handed to the PNG encoder is the specified
\* function of the parsed quality, and that function is as PngLevelFunction
\* says.
C9_PngCompressionLevel ==
    /\ (pipeline # Undefined /\ pipeline[1].encode.format = "png") =>
           pipeline[1].encode.options = Some([compressionLevel |-> SpecifiedLevel(params.quality)])
    /\ PngLevelFunction

C9_Witness ==
    /\ variant = "enhanced"
    /\ pipeline # Undefined
    /\ params.quality = Some(50)
    /\ pipeline[1].encode = [format |-> "png", options |-> Some([compressionLevel |-> 5])]

(***************************************************************************)
(* C10                                                                     *)
(***************************************************************************)

\* The value of the last occurrence of a name in the query string.
LastValueOf(name) ==
    IF ValuesOf(name) = <<>> THEN Undefined ELSE ValuesOf(name)[Len(ValuesOf(name))]

FirstValueOf(name) ==
    IF ValuesOf(name) = <<>> THEN Undefined ELSE ValuesOf(name)[1]

\* The parameters are those read from the values w, h and q.
ParamsReadFrom(w, h, q) ==
    /\ params.width = toInt(w, 1, 8192)
    /\ params.height = toInt(h, 1, 8192)
    /\ params.quality = toInt(q, 1, 100)

ParamsReadFromLast ==
    ParamsReadFrom(LastValueOf(<<"w">>), LastValueOf(<<"h">>), LastValueOf(<<"q">>))

ParamsReadFromFirst ==
    ParamsReadFrom(FirstValueOf(<<"w">>), FirstValueOf(<<"h">>), FirstValueOf(<<"q">>))

\* C10 as stated: each parsed parameter is read from the last occurrence of
\* its name.
C10_LastOccurrenceWins == Started => ParamsReadFromLast

\* C10 amended: so in the simple handler; ImageResizeEdge.handle reads the
\* first occurrence.
C10_OccurrenceByHandler ==
    Started =>
        /\ variant = "simple" => ParamsReadFromLast
        /\ variant = "enhanced" => ParamsReadFromFirst

C10_Witness ==
    /\ variant = "enhanced"
    /\ Started
    /\ ValuesOf(<<"w">>) = <<Some(<<"7">>), Some(<<"5", "0">>)>>
    /\ params.width = Some(7)

====
